---- MODULE Spec2Model ----
(***************************************************************************)
(* Model of the Facebook Ads API dumper (src/main.go): the request/retry   *)
(* executor (makeRequestWithRetry), the paginator (fetchPaginated), the    *)
(* resource fetchers and the account orchestrator (processAccount, main).  *)
(* The program is single-threaded; pc names the function that runs next,   *)
(* and every HTTP exchange with the upstream is one step whose outcome is  *)
(* chosen by the environment.                                              *)
(***************************************************************************)
EXTENDS Integers, Sequences, FiniteSets, TLC

\* ---------------------------------------------------------------- bounds
\* largest number of accounts the discovery response lists
MaxAccounts == 2
\* largest value of the -max-pages flag that is explored (0 = unlimited)
MaxPagesCap == 2
\* longest cursor chain the upstream serves for one collection
MaxChain == MaxPagesCap + 1

\* ------------------------------------------------------------- constants
Nil == "nil"
StatusOK == 200
RateLimitedStatuses == {429, 17}
Statuses == {200, 429, 17, 400}

AccountIds == <<"a1", "a2", "a3", "a4">>
AccountLists == {SubSeq(AccountIds, 1, n) : n \in 0..MaxAccounts}

\* the upstream's page k holds no record or the record ItemIds[k], and its
\* after cursor is empty, CursorIds[k], or "ctl": a cursor holding a control
\* character, which makes url.Parse reject the next request's URL
ItemIds == <<"r1", "r2", "r3", "r4", "r5">>
CursorIds == <<"c1", "c2", "c3", "c4", "c5">>
PageData(k) == {<<>>, <<ItemIds[k]>>}
Cursors(k) == {"", CursorIds[k], "ctl"}

\* the five resource fetchers in the order processAccount calls them
Fetchers == <<"ad_account", "campaigns", "adsets", "ads", "insights">>
NumFetchers == Len(Fetchers)
IsCollection(name) == name \in {"campaigns", "adsets", "ads"}

\* ----------------------------------------------------------------- bodies
\* kind "object":   JSON that unmarshals into the expected struct
\* kind "mismatch": valid JSON that does not unmarshal into the struct
\* kind "garbage":  not JSON at all
\* kind "nil":      Go's nil byte slice
ObjectBody(d, a) == [kind |-> "object", data |-> d, after |-> a]
MismatchBody == [kind |-> "mismatch", data |-> <<>>, after |-> ""]
GarbageBody == [kind |-> "garbage", data |-> <<>>, after |-> ""]
NilBody == [kind |-> "nil", data |-> <<>>, after |-> ""]

ZeroPag == [allData |-> <<>>, pageCount |-> 0, cursor |-> ""]
ZeroRet == [body |-> NilBody, data |-> <<>>, err |-> Nil]
\* an endpoint: the resource path, the account it is built from, and the
\* after parameters appended to its query string, in order
ZeroEndpoint == [base |-> "", account |-> "", after |-> <<>>]
ZeroObs == [endpoint |-> ZeroEndpoint, resps |-> <<>>, sleeps |-> <<>>,
            httpCount |-> 0]
\* afterRetries: the logical request before this one was retried
ZeroReq == [endpoint |-> ZeroEndpoint, retryCount |-> 0, caller |-> "",
            afterRetries |-> FALSE]
\* httpReqs: the HTTP requests sent since the fetch in progress began,
\* counted up to one above the bound of the page cap
ZeroFetch == [served |-> <<>>, logicalReqs |-> 0, sink |-> <<>>,
              httpReqs |-> 0]

VARIABLES
    config,        \* Config: AccessToken, OutputDir set or not, Debug,
                   \* MaxPages
    pc,            \* the function that runs next
    outcome,       \* how main ended: "", fatal_*, no_accounts, tally
    accounts,      \* main's accounts slice
    idx,           \* main's loop position (1-based)
    successCount,  \* main's successCount
    fetcher,       \* processAccount's position: fetcher 1..5 in progress
    pag,           \* fetchPaginated's locals allData, pageCount, cursor
    req,           \* makeRequestWithRetry's endpoint, retryCount, and caller,
                   \* and whether the request before it was retried
    ret,           \* value returned by the callee that just returned
    obs,           \* per logical request: what the upstream answered, sleeps
    fetch,         \* per fetch: 200-bodies served, makeRequest calls
    acct,          \* per processed account: fetchers invoked, errors seen,
                   \* processAccount's error, counted successful or not
    logged,        \* renderings of the credential the last step logged
    allFailed      \* every fetcher call so far has returned an error

vars == <<config, pc, outcome, accounts, idx, successCount, fetcher, pag,
          req, ret, obs, fetch, acct, logged, allFailed>>

\* url.Parse accepts the endpoint
URLParses(endpoint) ==
    \A k \in 1..Len(endpoint.after) : endpoint.after[k] # "ctl"

\* ------------------------------------------------------------ credential
\* tokens are sequences of characters: none, one of 6 characters, and one of
\* 22 characters
ShortToken == <<"s", "e", "c", "r", "e", "t">>
LongToken == <<"E", "A", "A", "B", "0", "1", "2", "3", "4", "5", "6",
               "7", "8", "9", "a", "b", "c", "d", "e", "f", "g", "h">>
Tokens == {<<>>, ShortToken, LongToken}

maskToken(token) ==
    IF Len(token) <= 20 THEN <<"*", "*", "*">>
    ELSE SubSeq(token, 1, 10) \o <<".", ".", ".">>
         \o SubSeq(token, Len(token) - 9, Len(token))

\* the access_token parameter of the URL that is requested
FinalURLToken(token) == token

\* the access_token parameter of the URL the debug log shows
DebugURLToken(token) == maskToken(token)

\* what one attempt writes to the debug log about the credential: nothing
\* without -debug or when the URL does not parse
DebugLog(endpoint) ==
    IF config.Debug /\ URLParses(endpoint)
    THEN {DebugURLToken(config.AccessToken)}
    ELSE {}

\* the credential as it appears in the text of an error: the error of a
\* failed GET quotes the requested URL with its query string
ErrorLog(err) ==
    IF err = "request_failed" THEN {FinalURLToken(config.AccessToken)}
    ELSE {}

\* ------------------------------------------------------- Request Executor
\* variant: every status that is not OK is retried
IsRateLimitedAnyError(status) == status # 200

IsRateLimited(status) == status = 429 \/ status = 17

\* variant: one retry too many
CanRetryOneMore(retryCount) == retryCount <= 3

CanRetry(retryCount) == retryCount < 3

\* variant: linear instead of exponential backoff
WaitTimeLinear(retryCount) == retryCount + 1

WaitTime(retryCount) == 2 ^ retryCount

\* bodies of responses whose status is not OK: an error document or no JSON
ErrorBodies == {ObjectBody(<<>>, ""), GarbageBody}

\* what the upstream/transport does with one HTTP GET that follows the
\* responses resps of the same logical request: the GET or the read fails,
\* or a response arrives, OK with one of bodies or not OK with an error body;
\* the upstream throttles one logical request with one status throughout
Outcomes(bodies, resps) ==
    [kind : {"get_fail", "read_fail"}, status : {0}, body : {NilBody}]
    \cup [kind : {"response"}, status : {StatusOK}, body : bodies]
    \cup [kind : {"response"},
          status : IF resps = <<>> THEN Statuses \ {StatusOK}
                   ELSE (Statuses \ (RateLimitedStatuses \cup {StatusOK}))
                        \cup {resps[1].status},
          body : ErrorBodies]

\* variant: only throttling is looked at, every other status is a success
ClassifiedThrottledOrOK(retryCount, o) ==
    IF IsRateLimited(o.status)
    THEN IF CanRetry(retryCount)
         THEN [sent |-> TRUE, retry |-> TRUE, wait |-> WaitTime(retryCount),
               body |-> NilBody, err |-> Nil]
         ELSE [sent |-> TRUE, retry |-> FALSE, wait |-> 0,
               body |-> NilBody, err |-> "rate_limit_exceeded"]
    ELSE [sent |-> TRUE, retry |-> FALSE, wait |-> 0,
          body |-> o.body, err |-> Nil]

\* the classification of a response that was received and read: a throttling
\* status sleeps and retries while retries are left, any other status that
\* is not OK is an error carrying the body, OK returns the body
\* retry - it sleeps wait seconds and calls itself with retryCount + 1
Classified(retryCount, o) ==
    IF IsRateLimited(o.status)
    THEN IF CanRetry(retryCount)
         THEN [sent |-> TRUE, retry |-> TRUE, wait |-> WaitTime(retryCount),
               body |-> NilBody, err |-> Nil]
         ELSE [sent |-> TRUE, retry |-> FALSE, wait |-> 0,
               body |-> NilBody, err |-> "rate_limit_exceeded"]
    ELSE IF o.status # StatusOK
    THEN [sent |-> TRUE, retry |-> FALSE, wait |-> 0, body |-> o.body,
          err |-> IF o.body.kind = "object" THEN "api_error"
                  ELSE "api_error_raw"]
    ELSE [sent |-> TRUE, retry |-> FALSE, wait |-> 0,
          body |-> o.body, err |-> Nil]

\* variant: a failed GET is retried like a throttled response
AttemptTransportRetried(endpoint, retryCount, o) ==
    IF ~URLParses(endpoint)
    THEN [sent |-> FALSE, retry |-> FALSE, wait |-> 0,
          body |-> NilBody, err |-> "parsing_url"]
    ELSE IF o.kind = "get_fail"
    THEN IF CanRetry(retryCount)
         THEN [sent |-> TRUE, retry |-> TRUE, wait |-> WaitTime(retryCount),
               body |-> NilBody, err |-> Nil]
         ELSE [sent |-> TRUE, retry |-> FALSE, wait |-> 0,
               body |-> NilBody, err |-> "rate_limit_exceeded"]
    ELSE IF o.kind = "read_fail"
    THEN [sent |-> TRUE, retry |-> FALSE, wait |-> 0,
          body |-> NilBody, err |-> "reading_response"]
    ELSE Classified(retryCount, o)

\* one execution of makeRequestWithRetry's body for outcome o of the GET
\* sent - the GET was issued
Attempt(endpoint, retryCount, o) ==
    IF ~URLParses(endpoint)
    THEN [sent |-> FALSE, retry |-> FALSE, wait |-> 0,
          body |-> NilBody, err |-> "parsing_url"]
    ELSE IF o.kind = "get_fail"
    THEN [sent |-> TRUE, retry |-> FALSE, wait |-> 0,
          body |-> NilBody, err |-> "request_failed"]
    ELSE IF o.kind = "read_fail"
    THEN [sent |-> TRUE, retry |-> FALSE, wait |-> 0,
          body |-> NilBody, err |-> "reading_response"]
    ELSE Classified(retryCount, o)

\* variant: a retry drops the cursor
RetryEndpointNoCursor(endpoint) == [endpoint EXCEPT !.after = <<>>]

\* the endpoint makeRequestWithRetry passes to itself on a retry
RetryEndpoint(endpoint) == endpoint

\* variant: the retries of the request before are carried over
InitialRetryCountShared(used) == used

\* the attempt counter makeRequest starts with, whatever number of retries
\* the logical request before it used
InitialRetryCount(used) == 0

\* makeRequest: a new logical request, attempt counter 0
StartRequest(ep, who) ==
    /\ req' = [endpoint |-> ep,
               retryCount |-> InitialRetryCount(Len(obs.sleeps)),
               caller |-> who, afterRetries |-> obs.sleeps # <<>>]
    /\ obs' = [ZeroObs EXCEPT !.endpoint = ep]
    /\ pc' = "makeRequest"

\* bodies the upstream may send to the request in progress
BodiesFor(r) ==
    IF r.caller = "fetchAdAccounts"
    THEN {ObjectBody(l, a) : l \in AccountLists, a \in {"", "c1"}}
         \cup {MismatchBody, GarbageBody}
    ELSE IF r.caller = "fetchPaginated"
    THEN {ObjectBody(d, a) : d \in PageData(pag.pageCount),
            a \in IF pag.pageCount < MaxChain THEN Cursors(pag.pageCount)
                  ELSE {""}}
         \cup {MismatchBody, GarbageBody}
    ELSE {ObjectBody(<<>>, ""), MismatchBody, GarbageBody}

\* one more GET sent by the fetch in progress; the counter, unbounded
\* without a page cap, stops one above four requests for each page of
\* the cap
CountHTTP(n) == IF n <= 4 * config.MaxPages THEN n + 1 ELSE n

makeRequestWithRetry ==
    /\ pc = "makeRequest"
    /\ \E o \in Outcomes(BodiesFor(req), obs.resps) :
         LET a == Attempt(req.endpoint, req.retryCount, o) IN
         /\ obs' = [endpoint |-> obs.endpoint,
                    resps |-> IF a.sent
                              THEN Append(obs.resps,
                                     [kind |-> o.kind, status |-> o.status,
                                      endpoint |-> req.endpoint])
                              ELSE obs.resps,
                    sleeps |-> IF a.retry THEN Append(obs.sleeps, a.wait)
                               ELSE obs.sleeps,
                    httpCount |-> IF a.sent THEN obs.httpCount + 1
                                  ELSE obs.httpCount]
         /\ fetch' = IF a.sent /\ o.kind = "response" /\ o.status = StatusOK
                     THEN [fetch EXCEPT !.served = Append(@, o.body),
                                        !.httpReqs = CountHTTP(@)]
                     ELSE IF a.sent
                     THEN [fetch EXCEPT !.httpReqs = CountHTTP(@)]
                     ELSE fetch
         /\ IF a.retry
            THEN /\ req' = [req EXCEPT !.retryCount = @ + 1,
                                       !.endpoint = RetryEndpoint(@)]
                 /\ UNCHANGED <<pc, ret>>
            ELSE /\ ret' = [body |-> a.body, data |-> <<>>, err |-> a.err]
                 /\ pc' = req.caller
                 /\ req' = ZeroReq
    /\ logged' = DebugLog(req.endpoint)
    /\ UNCHANGED allFailed
    /\ UNCHANGED <<config, outcome, accounts, idx, successCount, fetcher,
                   pag, acct>>

\* ------------------------------------------------------------- Paginator
\* variant: the cap is ignored
CapReachedNever(maxPages, pageCount) == FALSE

\* variant: the cap is checked one page late
CapReachedLate(maxPages, pageCount) ==
    maxPages > 0 /\ pageCount > maxPages + 1

CapReached(maxPages, pageCount) == maxPages > 0 /\ pageCount > maxPages

\* variant: the cursor is never appended
PageEndpointNoCursor(base, cursor) == base

\* the endpoint of one iteration: the base endpoint, with after=cursor
\* appended to it when the cursor is not empty
PageEndpoint(base, cursor) ==
    IF cursor # "" THEN [base EXCEPT !.after = Append(@, cursor)]
    ELSE base

\* variant: the page replaces the accumulated items
AppendPageOverwrite(allData, data) == data

AppendPage(allData, data) == allData \o data

\* variant: a page without records ends the fetch
IsLastPageWhenEmpty(data, after) == after = "" \/ data = <<>>

\* the page with records data and cursor after is the last one
IsLastPage(data, after) == after = ""

\* variant: the error of a page request is dropped
ReturnFromPaginatedNoError(data, err) ==
    /\ ret' = [body |-> NilBody, data |-> data, err |-> Nil]
    /\ pag' = ZeroPag
    /\ pc' = "fetchCollection"

\* fetchPaginated returns (data, err) to the collection fetcher
ReturnFromPaginated(data, err) ==
    /\ ret' = [body |-> NilBody, data |-> data, err |-> err]
    /\ pag' = ZeroPag
    /\ pc' = "fetchCollection"

\* top of fetchPaginated's for loop, entered with locals p: count the page,
\* check the cap, build the endpoint and call makeRequest
LoopTop(base, p, f) ==
    LET pageCount == p.pageCount + 1 IN
    IF CapReached(config.MaxPages, pageCount)
    THEN /\ ReturnFromPaginated(p.allData, Nil)
         /\ fetch' = f
         /\ UNCHANGED <<req, obs>>
    ELSE /\ pag' = [p EXCEPT !.pageCount = pageCount]
         /\ fetch' = [f EXCEPT !.logicalReqs = @ + 1]
         /\ StartRequest(PageEndpoint(base, p.cursor), "fetchPaginated")
         /\ UNCHANGED ret

\* variant: the accounts are taken from the end of the list
AccountAtReversed(accs, i) == accs[Len(accs) + 1 - i]

\* the account of iteration i of main's range loop
AccountAt(accs, i) == accs[i]

\* the endpoint fetcher k builds from the ID of the account at position i
BaseEndpoint(k, i) ==
    [base |-> Fetchers[k], account |-> AccountAt(accounts, i),
     after |-> <<>>]

\* variant: any body is taken for a page
PageParsesAnything(body) == TRUE

\* json.Unmarshal of a page body into PaginatedResponse succeeds
PageParses(body) == body.kind = "object"

\* makeRequest returned to fetchPaginated: parse the page, append its items,
\* stop on an empty after cursor, else go round the loop
fetchPaginated ==
    /\ pc = "fetchPaginated"
    /\ IF ret.err # Nil
       THEN /\ ReturnFromPaginated(<<>>, ret.err)
            /\ UNCHANGED <<req, obs, fetch>>
       ELSE IF ~PageParses(ret.body)
       THEN /\ ReturnFromPaginated(<<>>, "parse_paginated")
            /\ UNCHANGED <<req, obs, fetch>>
       ELSE LET allData == AppendPage(pag.allData, ret.body.data) IN
            IF IsLastPage(ret.body.data, ret.body.after)
            THEN /\ ReturnFromPaginated(allData, Nil)
                 /\ UNCHANGED <<req, obs, fetch>>
            ELSE LoopTop(BaseEndpoint(fetcher, idx),
                         [pag EXCEPT !.allData = allData,
                                     !.cursor = ret.body.after],
                         fetch)
    /\ logged' = {}
    /\ UNCHANGED allFailed
    /\ UNCHANGED <<config, outcome, accounts, idx, successCount, fetcher,
                   acct>>

\* ------------------------------------------------------ Resource Fetchers
\* dumpResponse's error: invalid JSON is printed raw and is no error; the
\* file is written only with an output directory and an account directory
DumpResponse(body, accountDir, writeOK) ==
    IF body.kind = "garbage" THEN Nil
    ELSE IF config.OutputDir /\ accountDir /\ ~writeOK THEN "writing_file"
    ELSE Nil

\* variant: the count is the number of pages, not of items
EnvelopePageCount(allData) ==
    [data |-> allData, total_count |-> IF allData = <<>> THEN 0 ELSE 1]

\* the aggregated response a collection fetcher builds from the batch
Envelope(allData) == [data |-> allData, total_count |-> Len(allData)]

\* fetchAdAccount / fetchInsights after makeRequest returned
fetchSingle ==
    /\ pc = "fetchSingle"
    /\ \E writeOK \in BOOLEAN :
         ret' = [ZeroRet EXCEPT !.err =
                   IF ret.err # Nil THEN ret.err
                   ELSE DumpResponse(ret.body, config.OutputDir, writeOK)]
    /\ fetch' = IF ret.err # Nil THEN fetch
                ELSE [fetch EXCEPT !.sink =
                        Append(@, [name |-> Fetchers[fetcher],
                                   doc |-> ret.body])]
    /\ pc' = "processAccount"
    /\ logged' = {}
    /\ UNCHANGED allFailed
    /\ UNCHANGED <<config, outcome, accounts, idx, successCount, fetcher,
                   pag, req, obs, acct>>

\* fetchCampaigns / fetchAdSets / fetchAds after fetchPaginated returned
fetchCollection ==
    /\ pc = "fetchCollection"
    /\ \E writeOK \in BOOLEAN :
         ret' = [ZeroRet EXCEPT !.err =
                   IF ret.err # Nil THEN ret.err
                   ELSE DumpResponse(ObjectBody(ret.data, ""),
                                     config.OutputDir, writeOK)]
    /\ fetch' = IF ret.err # Nil THEN fetch
                ELSE [fetch EXCEPT !.sink =
                        Append(@, [name |-> Fetchers[fetcher],
                                   doc |-> Envelope(ret.data)])]
    /\ pc' = "processAccount"
    /\ logged' = {}
    /\ UNCHANGED allFailed
    /\ UNCHANGED <<config, outcome, accounts, idx, successCount, fetcher,
                   pag, req, obs, acct>>

\* processAccount calls fetcher k of the account at position idx
InvokeFetcher(k) ==
    /\ fetcher' = k
    /\ IF IsCollection(Fetchers[k])
       THEN LoopTop(BaseEndpoint(k, idx), ZeroPag, ZeroFetch)
       ELSE /\ fetch' = [ZeroFetch EXCEPT !.logicalReqs = 1]
            /\ StartRequest(BaseEndpoint(k, idx), "fetchSingle")
            /\ UNCHANGED <<pag, ret>>

\* --------------------------------------------------- Account Orchestrator
\* the values FB_ACCESS_TOKEN may hold
EnvTokens == {<<>>, LongToken}

\* main up to the call of fetchAdAccounts: the token comes from the flag or
\* else from the environment, the output directory is created when given
main ==
    /\ pc = "main"
    /\ \E envToken \in EnvTokens,
          mkdirOK \in (IF config.OutputDir THEN BOOLEAN ELSE {TRUE}) :
         LET token == IF config.AccessToken = <<>> THEN envToken
                      ELSE config.AccessToken IN
         IF token = <<>>
         THEN /\ outcome' = "fatal_usage"
              /\ pc' = "exit"
              /\ UNCHANGED <<config, req, obs, fetch>>
         ELSE IF ~mkdirOK
         THEN /\ outcome' = "fatal_output_dir"
              /\ pc' = "exit"
              /\ UNCHANGED <<config, req, obs, fetch>>
         ELSE /\ config' = [config EXCEPT !.AccessToken = token]
              /\ fetch' = [ZeroFetch EXCEPT !.logicalReqs = 1]
              /\ StartRequest([base |-> "me/adaccounts", account |-> "",
                               after |-> <<>>], "fetchAdAccounts")
              /\ UNCHANGED outcome
    /\ logged' = {}
    /\ UNCHANGED allFailed
    /\ UNCHANGED <<accounts, idx, successCount, fetcher, pag, ret, acct>>

\* fetchAdAccounts' result from what makeRequest returned
FetchAdAccountsResult(r) ==
    IF r.err # Nil THEN [accounts |-> <<>>, err |-> r.err]
    ELSE IF r.body.kind # "object"
    THEN [accounts |-> <<>>, err |-> "parse_accounts"]
    ELSE [accounts |-> r.body.data, err |-> Nil]

\* variant: a discovery error is not fatal
DiscoveryFatalIgnored(err) == FALSE

DiscoveryFatal(err) == err # Nil

\* variant: the empty account list is not noticed
NoAccountsMissed(accs) == FALSE

NoAccounts(accs) == Len(accs) = 0

\* makeRequest returned to fetchAdAccounts, which returns to main
fetchAdAccounts ==
    /\ pc = "fetchAdAccounts"
    /\ LET r == FetchAdAccountsResult(ret) IN
       /\ ret' = [body |-> NilBody, data |-> r.accounts, err |-> r.err]
       /\ fetch' = IF r.err # Nil THEN fetch
                   ELSE [fetch EXCEPT !.sink =
                           Append(@, [name |-> "all_ad_accounts",
                                      doc |-> ret.body])]
       /\ logged' = IF DiscoveryFatal(r.err) THEN ErrorLog(r.err) ELSE {}
       /\ UNCHANGED allFailed
       /\ IF DiscoveryFatal(r.err)
          THEN /\ outcome' = "fatal_discovery"
               /\ pc' = "exit"
               /\ UNCHANGED <<accounts, idx>>
          ELSE /\ accounts' = r.accounts
               /\ IF NoAccounts(r.accounts)
                  THEN /\ outcome' = "no_accounts"
                       /\ pc' = "exit"
                       /\ UNCHANGED idx
                  ELSE /\ idx' = 1
                       /\ pc' = "main_loop"
                       /\ UNCHANGED outcome
    /\ UNCHANGED <<config, successCount, fetcher, pag, req, obs, acct>>

\* variant: the loop ends before the last account
HasNextAccountSkipLast(i, accs) == i < Len(accs)

\* main's range loop has an account left at iteration i
HasNextAccount(i, accs) == i <= Len(accs)

\* main's loop calls processAccount: create the account directory, then
\* call the first fetcher
processAccount ==
    /\ pc = "main_loop"
    /\ HasNextAccount(idx, accounts)
    /\ \E mkdirOK \in (IF config.OutputDir THEN BOOLEAN ELSE {TRUE}) :
         IF ~mkdirOK
         THEN /\ acct' = Append(acct, [id |-> AccountAt(accounts, idx),
                                       invoked |-> {}, errored |-> FALSE,
                                       paErr |-> "creating_account_directory",
                                       counted |-> FALSE])
              /\ ret' = [ZeroRet EXCEPT !.err = "creating_account_directory"]
              /\ pc' = "main_after_processAccount"
              /\ UNCHANGED <<fetcher, pag, req, obs, fetch>>
         ELSE /\ acct' = Append(acct, [id |-> AccountAt(accounts, idx),
                                       invoked |-> {1}, errored |-> FALSE,
                                       paErr |-> "running",
                                       counted |-> FALSE])
              /\ InvokeFetcher(1)
    /\ logged' = {}
    /\ UNCHANGED allFailed
    /\ UNCHANGED <<config, outcome, accounts, idx, successCount>>

\* variant: processAccount calls a fetcher again until it returns no error
AfterFetcherAgainOnError(k, err) ==
    IF err # Nil THEN k ELSE IF k < NumFetchers THEN k + 1 ELSE 0

\* variant: processAccount returns at the first fetcher error
AfterFetcherStopOnError(k, err) ==
    IF err # Nil THEN 0 ELSE IF k < NumFetchers THEN k + 1 ELSE 0

\* the fetcher processAccount calls after fetcher k returned err, 0 when it
\* returns instead: the error is only logged
AfterFetcher(k, err) == IF k < NumFetchers THEN k + 1 ELSE 0

\* a fetcher returned to processAccount: log its error, call the next
\* fetcher, and return nil after the last
processAccountStep ==
    /\ pc = "processAccount"
    /\ LET seen == [acct[idx] EXCEPT !.errored = @ \/ ret.err # Nil]
           next == AfterFetcher(fetcher, ret.err) IN
       IF next # 0
       THEN /\ acct' = [acct EXCEPT ![idx] =
                          [seen EXCEPT !.invoked = @ \cup {next}]]
            /\ InvokeFetcher(next)
       ELSE /\ acct' = [acct EXCEPT ![idx] = [seen EXCEPT !.paErr = Nil]]
            /\ ret' = ZeroRet
            /\ fetcher' = 0
            /\ pc' = "main_after_processAccount"
            /\ UNCHANGED <<pag, req, obs, fetch>>
    /\ logged' = ErrorLog(ret.err)
    /\ allFailed' = (allFailed /\ ret.err # Nil)
    /\ UNCHANGED <<config, outcome, accounts, idx, successCount>>

\* variant: an account one of whose fetchers failed is not counted
CountsAsSuccessIfNoFetchError(err) == err = Nil /\ ~acct[idx].errored

\* variant: every processed account is counted
CountsAsSuccessAlways(err) == TRUE

CountsAsSuccess(err) == err = Nil

\* processAccount returned to main's loop
mainAfterProcessAccount ==
    /\ pc = "main_after_processAccount"
    /\ successCount' = IF CountsAsSuccess(ret.err) THEN successCount + 1
                       ELSE successCount
    /\ acct' = [acct EXCEPT ![idx].counted = CountsAsSuccess(ret.err)]
    /\ idx' = idx + 1
    /\ pc' = "main_loop"
    /\ logged' = ErrorLog(ret.err)
    /\ UNCHANGED allFailed
    /\ UNCHANGED <<config, outcome, accounts, fetcher, pag, req, ret, obs,
                   fetch>>

\* the loop is over: main logs the tally and returns
mainTally ==
    /\ pc = "main_loop"
    /\ ~HasNextAccount(idx, accounts)
    /\ outcome' = "tally"
    /\ pc' = "exit"
    /\ logged' = {}
    /\ UNCHANGED allFailed
    /\ UNCHANGED <<config, accounts, idx, successCount, fetcher, pag, req,
                   ret, obs, fetch, acct>>

\* ---------------------------------------------------------- specification
\* the flag values explored: every page cap setting with the long token
\* and no output directory; -debug and the short token, which only change
\* what is logged, and the output directory, which only adds the
\* directory and file steps, with one page cap setting
Configs ==
    {c \in [AccessToken : Tokens, OutputDir : BOOLEAN, Debug : BOOLEAN,
            MaxPages : 0..MaxPagesCap] :
       /\ (c.Debug \/ c.AccessToken = ShortToken) =>
              (~c.OutputDir /\ c.MaxPages = 1)
       /\ c.OutputDir => c.MaxPages = 1}

Init ==
    /\ config \in Configs
    /\ pc = "main"
    /\ outcome = ""
    /\ accounts = <<>>
    /\ idx = 0
    /\ successCount = 0
    /\ fetcher = 0
    /\ pag = ZeroPag
    /\ req = ZeroReq
    /\ ret = ZeroRet
    /\ obs = ZeroObs
    /\ fetch = ZeroFetch
    /\ acct = <<>>
    /\ logged = {}
    /\ allFailed = TRUE

Next ==
    \/ main
    \/ makeRequestWithRetry
    \/ fetchAdAccounts
    \/ processAccount
    \/ fetchSingle
    \/ fetchPaginated
    \/ fetchCollection
    \/ processAccountStep
    \/ mainAfterProcessAccount
    \/ mainTally

Spec == Init /\ [][Next]_vars

\* the flag values of the runs whose progress is checked: unlimited pages
\* with no output directory, and one page with an output directory
LiveConfigs ==
    {c \in Configs :
       /\ c.AccessToken = LongToken
       /\ ~c.Debug
       /\ c.MaxPages = IF c.OutputDir THEN 1 ELSE 0}

LiveInit == Init /\ config \in LiveConfigs

\* the program keeps running: a step that can be taken is taken, which
\* includes that every HTTP request issued is answered
LiveSpec == LiveInit /\ [][Next]_vars /\ WF_vars(Next)

\* ------------------------------------------------------------ properties
RECURSIVE Flatten(_)
Flatten(pages) ==
    IF pages = <<>> THEN <<>>
    ELSE Head(pages).data \o Flatten(Tail(pages))

Last(seq) == seq[Len(seq)]

\* pc values at which ret is what makeRequest just returned
RequestReturnPcs == {"fetchAdAccounts", "fetchSingle", "fetchPaginated"}

Throttled(r) == r.kind = "response" /\ r.status \in RateLimitedStatuses
Succeeded(r) == r.kind = "response" /\ r.status = StatusOK
HardError(r) ==
    r.kind = "response" /\ r.status # StatusOK
    /\ r.status \notin RateLimitedStatuses
TransportFailed(r) == r.kind \in {"get_fail", "read_fail"}

AllFetchers == 1..NumFetchers

\* C1 as stated: when the tally is reached, every discovered account has
\* been processed and all five fetchers were invoked for each of them.
C1_AllFetchersForEveryAccount ==
    outcome = "tally" =>
        /\ Len(acct) = Len(accounts)
        /\ \A i \in 1..Len(acct) : acct[i].invoked = AllFetchers

\* C1 amended: every account whose directory step succeeded (always, with
\* no output directory) gets its five fetchers invoked in order whatever
\* each of them returns; the account in progress has had fetchers 1..fetcher
\* invoked; an account whose directory cannot be created has none; and at
\* the tally every discovered account has been processed.
C1_FailureIsolation ==
    /\ \A i \in 1..Len(acct) :
         /\ acct[i].paErr = Nil => acct[i].invoked = AllFetchers
         /\ acct[i].paErr = "running" =>
              i = idx /\ fetcher >= 1 /\ acct[i].invoked = 1..fetcher
         /\ acct[i].paErr = "creating_account_directory" =>
              config.OutputDir /\ acct[i].invoked = {}
    /\ ~config.OutputDir =>
         \A i \in 1..Len(acct) : acct[i].paErr # "creating_account_directory"
    /\ pc = "processAccount" => acct[idx].paErr = "running"
    /\ accounts # <<>> /\ pc = "exit" =>
         outcome = "tally" /\ Len(acct) = Len(accounts)

C1_Witness ==
    /\ outcome = "tally"
    /\ Len(acct) = 2
    /\ acct[1].errored
    /\ acct[1].invoked = AllFetchers
    /\ acct[2].invoked = AllFetchers

C3_PageCap ==
    config.MaxPages > 0 =>
        /\ fetch.logicalReqs <= config.MaxPages
        /\ pag.pageCount <= config.MaxPages
        /\ (/\ pc = "fetchCollection"
            /\ Len(fetch.served) = config.MaxPages
            /\ \A k \in 1..Len(fetch.served) :
                 fetch.served[k].kind = "object"
            /\ Last(fetch.served).after # "")
           => /\ ret.err = Nil
              /\ ret.data = Flatten(fetch.served)
              /\ fetch.logicalReqs = config.MaxPages

C3_Witness ==
    /\ pc = "fetchCollection"
    /\ config.MaxPages = 2
    /\ Len(fetch.served) = 2
    /\ fetch.served[2].after = "c2"
    /\ ret.err = Nil
    /\ ret.data = <<"r1", "r2">>

C6_HardErrorNotRetried ==
    \A k \in 1..Len(obs.resps) :
        HardError(obs.resps[k]) =>
            /\ k = Len(obs.resps)
            /\ pc # "makeRequest"
            /\ obs.httpCount = k
            /\ Len(obs.sleeps) = k - 1
            /\ pc \in RequestReturnPcs =>
                 ret.err \in {"api_error", "api_error_raw"}

C6_Witness ==
    /\ pc \in RequestReturnPcs
    /\ Len(obs.resps) = 2
    /\ Throttled(obs.resps[1])
    /\ HardError(obs.resps[2])
    /\ obs.httpCount = 2
    /\ obs.sleeps = <<1>>

\* C7: a transport failure is the last event of its logical request: the
\* request has returned a transport error (never rate limit exceeded), with
\* no sleep after it and no further HTTP request, also on a retry attempt;
\* a malformed URL fails before any HTTP request.
C7_TransportNotRetried ==
    /\ \A k \in 1..Len(obs.resps) :
         TransportFailed(obs.resps[k]) =>
             /\ k = Len(obs.resps)
             /\ pc # "makeRequest"
             /\ obs.httpCount = k
             /\ Len(obs.sleeps) = k - 1
             /\ pc \in RequestReturnPcs =>
                  /\ ret.body = NilBody
                  /\ ret.err = IF obs.resps[k].kind = "get_fail"
                               THEN "request_failed"
                               ELSE "reading_response"
    /\ (pc \in RequestReturnPcs /\ obs.endpoint.after = <<"ctl">>) =>
         /\ ret.err = "parsing_url"
         /\ obs.httpCount = 0
         /\ obs.sleeps = <<>>

C7_Witness ==
    /\ pc \in RequestReturnPcs
    /\ Len(obs.resps) = 3
    /\ Throttled(obs.resps[1])
    /\ Throttled(obs.resps[2])
    /\ obs.resps[3].kind = "get_fail"
    /\ ret.err = "request_failed"

\* main's exits before discovery is attempted
FatalBeforeDiscovery == {"fatal_usage", "fatal_output_dir"}

\* the discovery request is the last logical request made so far
AfterDiscovery ==
    /\ pc \in {"exit", "main_loop"}
    /\ acct = <<>>
    /\ outcome \notin FatalBeforeDiscovery

\* what the upstream answered to discovery was a parsable OK response
DiscoveryAnsweredOK ==
    /\ obs.resps # <<>>
    /\ Succeeded(Last(obs.resps))
    /\ Last(fetch.served).kind = "object"

\* C8: when discovery fails (request error or unparsable response) the run
\* ends at once, with no account processed, no fetcher invoked and no
\* tally; and a run that processed an account never ends fatally.
C8_DiscoveryFailureIsFatal ==
    /\ (AfterDiscovery /\ ~DiscoveryAnsweredOK) =>
         /\ pc = "exit"
         /\ outcome = "fatal_discovery"
         /\ accounts = <<>>
         /\ fetch.logicalReqs = 1
    /\ outcome = "fatal_discovery" =>
         /\ pc = "exit"
         /\ acct = <<>>
         /\ fetcher = 0
         /\ successCount = 0
         /\ ~DiscoveryAnsweredOK
    /\ acct # <<>> => outcome \in {"", "tally"}

C8_Witness ==
    /\ pc = "exit"
    /\ outcome = "fatal_discovery"
    /\ obs.httpCount = 4
    /\ ret.err = "rate_limit_exceeded"

\* C9: when discovery succeeds with zero accounts the run ends on the
\* no-accounts path with 0 accounts processed, 0 counted successful, and
\* no request other than the discovery request.
C9_NoAccounts ==
    (/\ pc = "exit"
     /\ outcome \notin FatalBeforeDiscovery \cup {"fatal_discovery"}
     /\ accounts = <<>>)
    => /\ outcome = "no_accounts"
       /\ Len(acct) = 0
       /\ successCount = 0
       /\ fetcher = 0
       /\ fetch.logicalReqs = 1
       /\ DiscoveryAnsweredOK
       /\ Last(fetch.served).data = <<>>

C9_Witness ==
    /\ pc = "exit"
    /\ outcome = "no_accounts"
    /\ DiscoveryAnsweredOK
    /\ Last(fetch.served).data = <<>>
    /\ successCount = 0

\* C10 as stated: an account that was counted successful had no fetcher
\* return an error.
C10_CountedOnlyIfAllFetchesSucceeded ==
    \A i \in 1..Len(acct) : acct[i].counted => ~acct[i].errored

\* C10 amended: an account is counted successful only if its processAccount
\* call returned no error, that is, its output directory step succeeded;
\* the success count is the number of counted accounts.
C10_CountedOnlyIfProcessAccountOK ==
    /\ \A i \in 1..Len(acct) :
         acct[i].counted => (acct[i].paErr = Nil /\ i < idx)
    /\ successCount = Cardinality({i \in 1..Len(acct) : acct[i].counted})
    /\ successCount <=
         Cardinality({i \in 1..Len(acct) : acct[i].paErr = Nil})

C10_Witness ==
    /\ outcome = "tally"
    /\ Len(acct) = 2
    /\ acct[1].counted
    /\ acct[1].errored
    /\ ~acct[2].counted
    /\ acct[2].paErr = "creating_account_directory"
    /\ successCount = 1

\* discovery itself succeeded and main has returned
EndedAfterDiscovery ==
    /\ pc = "exit"
    /\ outcome \notin FatalBeforeDiscovery \cup {"fatal_discovery"}

\* C11 as stated: a run whose discovery succeeded ends with the final tally
\* line, for every discovered account list including the empty one.
C11_TallyAfterEveryDiscovery == EndedAfterDiscovery => outcome = "tally"

\* C11 amended: once discovery has returned a non-empty account list, the
\* run eventually reports the final tally line, whatever the fetchers
\* return, provided every request is answered and every cursor chain ends.
C11_TallyEventually == (accounts # <<>>) ~> (outcome = "tally")

C11_Witness ==
    /\ outcome = "tally"
    /\ Len(acct) = 2
    /\ \A i \in 1..2 : acct[i].invoked = AllFetchers
    /\ allFailed

\* C12: the account loop starts only when the last page of the accessible-
\* accounts endpoint had an empty after cursor, and the discovered account
\* list is the concatenation of the accounts of all pages served.
C12_DiscoveryFollowsCursors ==
    (AfterDiscovery /\ DiscoveryAnsweredOK) =>
        /\ Last(fetch.served).after = ""
        /\ accounts = Flatten(fetch.served)

\* C13: every rendering of the credential that is logged is its masked form.
C13_CredentialMaskedInLogs ==
    \A rendering \in logged : rendering = maskToken(config.AccessToken)

\* the fetch in progress, or the one that just returned, is a collection
\* fetch of the account at position idx
InCollection == fetcher \in 1..NumFetchers /\ IsCollection(Fetchers[fetcher])

\* the page cap leaves room for one more page after the pages served
CapPermits ==
    ~(config.MaxPages > 0 /\ Len(fetch.served) + 1 > config.MaxPages)

PageRequestFailed ==
    \/ ~URLParses(obs.endpoint)
    \/ obs.resps # <<>> /\ ~Succeeded(Last(obs.resps))

\* C15: when a page request of a collection fetch has returned an error,
\* the fetch ends with that error and no items, with no request after the
\* failed one, the fetcher returns an error, and nothing is handed to
\* dumpResponse; an envelope is handed over only when no page request
\* failed, and it holds the items of the pages served.
C15_PageErrorAborts ==
    InCollection =>
        /\ (PageRequestFailed /\ pc = "fetchPaginated") => ret.err # Nil
        /\ (PageRequestFailed /\ pc \in {"fetchCollection", "processAccount"})
           => /\ ret.err \notin {Nil, "writing_file", "parse_paginated"}
              /\ ret.data = <<>>
              /\ fetch.sink = <<>>
              /\ fetch.logicalReqs = Len(fetch.served) + 1
        /\ fetch.sink # <<>> =>
             /\ ~PageRequestFailed
             /\ pc = "processAccount"
             /\ fetch.sink = <<[name |-> Fetchers[fetcher],
                                doc |-> Envelope(Flatten(fetch.served))]>>

C15_Witness ==
    /\ InCollection
    /\ pc = "processAccount"
    /\ Len(fetch.served) = 2
    /\ fetch.logicalReqs = 3
    /\ HardError(Last(obs.resps))
    /\ ret.err = "api_error"
    /\ fetch.sink = <<>>

\* C16: every attempt of a logical request used the endpoint the request
\* was started with, and while a page request is in progress, at the first
\* attempt and at every retry, the paginator's page counter, cursor and
\* items are those it had when it issued the request: the counter is the
\* number of pages served plus one.
C16_RetryReissuesSameRequest ==
    /\ \A k \in 1..Len(obs.resps) : obs.resps[k].endpoint = obs.endpoint
    /\ pc = "makeRequest" =>
         /\ req.endpoint = obs.endpoint
         /\ req.caller = "fetchPaginated" =>
              /\ pag.pageCount = Len(fetch.served) + 1
              /\ pag.pageCount = fetch.logicalReqs
              /\ pag.allData = Flatten(fetch.served)
              /\ pag.cursor = IF fetch.served = <<>> THEN ""
                              ELSE Last(fetch.served).after
              /\ req.endpoint.after =
                   IF pag.cursor = "" THEN <<>> ELSE <<pag.cursor>>

C16_Witness ==
    /\ pc = "makeRequest"
    /\ req.caller = "fetchPaginated"
    /\ config.MaxPages = 2
    /\ pag.pageCount = 2
    /\ req.retryCount = 3
    /\ Len(obs.resps) = 3
    /\ \A k \in 1..3 : obs.resps[k].endpoint.after = <<"c1">>

\* C17: the attempt counter of the request in progress is the number of
\* responses this logical request has received, and its sleeps are 1, 2, 4
\* seconds from the first retry on, whether or not the logical request
\* before it was retried.
C17_RetryStatePerRequest ==
    /\ obs.httpCount = Len(obs.resps)
    /\ Len(obs.sleeps) <= 3
    /\ obs.sleeps = [k \in 1..Len(obs.sleeps) |-> 2 ^ (k - 1)]
    /\ pc = "makeRequest" =>
         /\ req.retryCount = Len(obs.resps)
         /\ req.retryCount = Len(obs.sleeps)
         /\ \A k \in 1..Len(obs.resps) : Throttled(obs.resps[k])

C17_Witness ==
    /\ pc = "makeRequest"
    /\ req.afterRetries
    /\ fetch.logicalReqs = 2
    /\ req.retryCount = 3
    /\ obs.sleeps = <<1, 2, 4>>

C20_SequentialOrder ==
    /\ \A i \in 1..Len(acct) : acct[i].id = accounts[i]
    /\ \A i \in 1..Len(acct) : acct[i].paErr = "running" => i = Len(acct)
    /\ pc # "makeRequest" => req = ZeroReq
    /\ (pc = "makeRequest" /\ req.caller = "fetchAdAccounts") =>
         acct = <<>> /\ accounts = <<>> /\ fetcher = 0
    /\ (pc = "makeRequest" /\ req.caller # "fetchAdAccounts") =>
         /\ fetcher \in 1..NumFetchers
         /\ req.caller = IF IsCollection(Fetchers[fetcher])
                         THEN "fetchPaginated" ELSE "fetchSingle"
         /\ req.endpoint.base = Fetchers[fetcher]
         /\ req.endpoint.account = accounts[idx]
         /\ Len(acct) = idx
         /\ acct[idx].invoked = 1..fetcher
         /\ \A i \in 1..(idx - 1) :
              \/ acct[i].paErr = Nil /\ acct[i].invoked = AllFetchers
              \/ acct[i].paErr = "creating_account_directory"

C20_Witness ==
    /\ pc = "makeRequest"
    /\ idx = 2
    /\ fetcher = 1
    /\ req.endpoint.account = "a2"
    /\ req.endpoint.base = "ad_account"
    /\ acct[1].id = "a1"
    /\ acct[1].invoked = AllFetchers

\* the paginator returned a batch to the fetcher in progress: the fetcher's
\* only possible error is that of writing the file
PaginatorSucceeded ==
    /\ InCollection
    /\ pc = "processAccount"
    /\ ret.err \in {Nil, "writing_file"}

\* the single-object fetcher in progress got a body from its request
SingleSucceeded ==
    /\ fetcher \in 1..NumFetchers
    /\ ~IsCollection(Fetchers[fetcher])
    /\ pc = "processAccount"
    /\ ret.err \in {Nil, "writing_file"}

\* C21: a collection fetcher whose paginator succeeded has handed
\* dumpResponse one envelope, whose items are the items of the pages
\* served, in order, and whose count is their number, also with no items
\* and at the page cap; a single-object fetcher whose request succeeded
\* has handed dumpResponse the body as received, after one logical
\* request and with the paginator not involved.
C21_SinkGetsEnvelopeOrRawBody ==
    /\ PaginatorSucceeded =>
         /\ Len(fetch.sink) = 1
         /\ fetch.sink[1].name = Fetchers[fetcher]
         /\ fetch.sink[1].doc.data = Flatten(fetch.served)
         /\ fetch.sink[1].doc.total_count = Len(Flatten(fetch.served))
         /\ fetch.logicalReqs = Len(fetch.served)
    /\ SingleSucceeded =>
         /\ fetch.sink = <<[name |-> Fetchers[fetcher],
                            doc |-> Last(fetch.served)]>>
         /\ fetch.logicalReqs = 1
         /\ Len(fetch.served) = 1
         /\ obs.endpoint.after = <<>>
         /\ pag = ZeroPag
    /\ (fetcher \in 1..NumFetchers /\ pc = "processAccount"
        /\ ret.err \notin {Nil, "writing_file"}) => fetch.sink = <<>>

C21_Witness ==
    /\ PaginatorSucceeded
    /\ config.MaxPages = 2
    /\ Len(fetch.served) = 2
    /\ fetch.served[2].after = "c2"
    /\ fetch.sink[1].doc = [data |-> <<"r1", "r2">>, total_count |-> 2]

\* the page the collection fetch in progress received last is not a
\* paginated response, and the paginator has seen it
UnparsablePage ==
    /\ InCollection
    /\ pc \in {"fetchCollection", "processAccount"}
    /\ fetch.served # <<>>
    /\ Last(fetch.served).kind # "object"
    /\ Succeeded(Last(obs.resps))

\* C22: a page body that is not a paginated response ends its collection
\* fetch with the parse error: the body was received by one successful
\* request that nothing followed, no batch and no document come out of
\* the fetch, and the step after the fetcher's return goes on to the next
\* fetcher, or after the last one hands the account back to the loop with
\* no error, so that the next account is taken.
C22_ParseErrorEndsOneFetchOnly ==
    /\ [](UnparsablePage =>
            /\ ret.err = "parse_paginated"
            /\ ret.data = <<>>
            /\ fetch.sink = <<>>
            /\ fetch.logicalReqs = Len(fetch.served)
            /\ Len(SelectSeq(obs.resps, Succeeded)) = 1
            /\ obs.sleeps = <<>> => obs.httpCount = 1)
    /\ [][(UnparsablePage /\ pc = "processAccount") =>
            /\ idx' = idx
            /\ acct'[idx].errored
            /\ acct'[idx].paErr \in {"running", Nil}
            /\ IF fetcher < NumFetchers
               THEN /\ fetcher' = fetcher + 1
                    /\ pc' = "makeRequest"
                    /\ fetch'.logicalReqs = 1
               ELSE /\ pc' = "main_after_processAccount"
                    /\ acct'[idx].paErr = Nil]_vars

C22_Witness ==
    /\ UnparsablePage
    /\ pc = "processAccount"
    /\ Len(fetch.served) = 2
    /\ fetch.served[1].data = <<"r1">>
    /\ Last(fetch.served) = MismatchBody
    /\ Fetchers[fetcher] = "ads"
    /\ idx = 1
    /\ Len(accounts) = 2

\* C23: with a page cap N > 0 a collection fetch sends at most N logical
\* requests and at most 4 * N HTTP requests; every step inside a fetch
\* moves it forward (a retry raises the attempt counter, which ends the
\* request at 3; a new page raises the page counter, which ends the fetch
\* at N whatever cursor the page carried); without a cap the paginator
\* returns only after an error or a page with an empty after cursor.
C23_CappedFetchTerminates ==
    /\ []((InCollection /\ config.MaxPages > 0) =>
            /\ fetch.logicalReqs <= config.MaxPages
            /\ fetch.httpReqs <= 4 * config.MaxPages
            /\ pag.pageCount <= config.MaxPages)
    /\ []((InCollection /\ config.MaxPages = 0 /\ pc = "fetchCollection") =>
            \/ ret.err # Nil
            \/ /\ fetch.served # <<>>
               /\ Last(fetch.served).kind = "object"
               /\ Last(fetch.served).after = "")
    /\ [][/\ (pc = "makeRequest" /\ pc' = "makeRequest") =>
               /\ req'.retryCount = req.retryCount + 1
               /\ req'.retryCount <= 3
               /\ fetch'.logicalReqs = fetch.logicalReqs
          /\ (pc = "fetchPaginated" /\ pc' = "makeRequest") =>
               /\ pag'.pageCount = pag.pageCount + 1
               /\ fetch'.logicalReqs = fetch.logicalReqs + 1
               /\ req'.retryCount = 0
          /\ (pc = "fetchPaginated" /\ config.MaxPages > 0
              /\ pag.pageCount = config.MaxPages) =>
               pc' = "fetchCollection"
          /\ pc = "fetchPaginated" =>
               pc' \in {"makeRequest", "fetchCollection"}]_vars

C23_Witness ==
    /\ InCollection
    /\ pc = "fetchCollection"
    /\ config.MaxPages = 2
    /\ ret.err = Nil
    /\ fetch.logicalReqs = 2
    /\ fetch.httpReqs = 8
    /\ Last(fetch.served).after = "c2"

\* the accounts whose loop iteration is over
ProcessedSoFar == IF idx = 0 THEN 0 ELSE idx - 1

\* C24: in every state 0 <= success count <= accounts processed so far
\* <= accounts discovered; the accounts taken up by processAccount are the
\* discovered ones in their positions, each once, with at most one in
\* progress; at the tally every discovered account has been processed; and
\* no step lowers the success count or the number processed, a step that
\* raises the success count raises it by one and finishes one account.
C24_LoopCounters ==
    /\ [](/\ 0 <= successCount
          /\ successCount <= ProcessedSoFar
          /\ ProcessedSoFar <= Len(acct)
          /\ Len(acct) <= ProcessedSoFar + 1
          /\ Len(acct) <= Len(accounts)
          /\ \A i \in 1..Len(acct) : acct[i].id = accounts[i]
          /\ outcome = "tally" =>
               /\ ProcessedSoFar = Len(accounts)
               /\ Len(acct) = Len(accounts)
          /\ pc \in {"processAccount", "main_after_processAccount"} =>
               Len(acct) = idx)
    /\ [][/\ successCount' \in {successCount, successCount + 1}
          /\ idx' \in {idx, idx + 1}
          /\ successCount' # successCount => idx' = idx + 1
          /\ Len(acct') \in {Len(acct), Len(acct) + 1}
          /\ \A i \in 1..Len(acct) : acct'[i].id = acct[i].id
          /\ accounts # <<>> => accounts' = accounts]_vars

C24_Witness ==
    /\ pc = "main_after_processAccount"
    /\ Len(accounts) = 2
    /\ idx = 2
    /\ ProcessedSoFar = 1
    /\ successCount = 0
    /\ ret.err = Nil

\* C25: an account whose loop iteration is over is counted exactly when
\* its processAccount call returned nil, whatever its fetchers returned;
\* the call returned an error only with an output directory, for the
\* account directory, and then called no fetcher, while a call that
\* returned nil called all five; the success count is the number of
\* iterations over whose account directory step did not fail; the loop
\* goes on after a failed one; and without an output directory the tally
\* counts every discovered account.
C25_CountIndependentOfFetches ==
    /\ \A i \in 1..ProcessedSoFar :
         /\ acct[i].paErr \in {Nil, "creating_account_directory"}
         /\ acct[i].counted <=> acct[i].paErr = Nil
         /\ acct[i].paErr = Nil => acct[i].invoked = AllFetchers
         /\ acct[i].paErr # Nil =>
              /\ config.OutputDir
              /\ acct[i].invoked = {}
              /\ ~acct[i].errored
    /\ successCount =
         ProcessedSoFar - Cardinality({i \in 1..ProcessedSoFar :
                            acct[i].paErr = "creating_account_directory"})
    /\ ~config.OutputDir => successCount = ProcessedSoFar
    /\ (outcome = "tally" /\ ~config.OutputDir) =>
         successCount = Len(accounts)
    /\ (pc = "main_loop" /\ ProcessedSoFar < Len(accounts)) =>
         ENABLED processAccount

C25_Witness ==
    /\ outcome = "tally"
    /\ Len(accounts) = 2
    /\ acct[1].paErr = "creating_account_directory"
    /\ acct[1].invoked = {}
    /\ acct[2].invoked = AllFetchers
    /\ acct[2].errored
    /\ acct[2].counted
    /\ successCount = 1

====
